---- MODULE Spec2Model ----
(***************************************************************************)
(* Camera capture client, recognition gateway and compliance evaluator of  *)
(* pattern-ocr-plates.                                                     *)
(*                                                                         *)
(*   client   : src/unnamed/part_001  (Home component, latest iteration)   *)
(*   gateways : src/unnamed/part_003  (gated: vision first, then OCR)      *)
(*              src/src/app/api/plate/route.ts (concurrent: Promise.all)   *)
(*                                                                         *)
(* JavaScript values are encoded as follows.  Human-readable messages are  *)
(* TLA+ strings, with NullS / UndefS for null / undefined.  Text that the  *)
(* code transforms (plates, labels, detection status) is a sequence of     *)
(* one-character strings, with AbsentC for undefined.  Objects are         *)
(* records, with NullR / UndefR for null / undefined.                      *)
(***************************************************************************)
EXTENDS Integers, Sequences, FiniteSets, TLC

\* ------------------------------------------------------------------ bounds
MaxStarts == 2
MaxStreams == 2
MaxTimeouts == 1
MaxCaptures == 2
MaxFiles == 2
MaxResults == 2
MaxRegistry == 2
MaxPosts == 2

\* ------------------------------------------------------------- JS values
NullS == "null"
UndefS == "undefined"
NullR == [t |-> "null"]
UndefR == [t |-> "undefined"]
AbsentC == <<"undefined">>
NullC == <<"null">>

\* ------------------------------------------------------------------ text
LowerLetters == <<"a", "b", "c", "d", "e", "n", "o", "t">>
UpperLetters == <<"A", "B", "C", "D", "E", "N", "O", "T">>
LetterIndex(letters, ch) == CHOOSE i \in 1..Len(letters) : letters[i] = ch

IsLetterOf(letters, ch) == \E i \in 1..Len(letters) : letters[i] = ch

toUpperChar(ch) ==
  IF IsLetterOf(LowerLetters, ch) THEN UpperLetters[LetterIndex(LowerLetters, ch)] ELSE ch

toLowerChar(ch) ==
  IF IsLetterOf(UpperLetters, ch) THEN LowerLetters[LetterIndex(UpperLetters, ch)] ELSE ch

toUpperCase(s) == [i \in 1..Len(s) |-> toUpperChar(s[i])]

toLowerCase(s) == [i \in 1..Len(s) |-> toLowerChar(s[i])]

RECURSIVE trimStart(_)
trimStart(s) == IF s # <<>> /\ Head(s) = " " THEN trimStart(Tail(s)) ELSE s

RECURSIVE trimEnd(_)
trimEnd(s) == IF s # <<>> /\ s[Len(s)] = " " THEN trimEnd(SubSeq(s, 1, Len(s) - 1)) ELSE s

trim(s) == trimEnd(trimStart(s))

Str_detected == <<"d", "e", "t", "e", "c", "t", "e", "d">>

\* ------------------------------------------------- upstream services (§6)
\* What one upstream fetch can do: answer 2xx with a JSON object, answer
\* non-2xx with a JSON error body, or fail in transport (fetch rejects).
OcrBodies ==
  { [results |-> <<>>],
    [results |-> << [plate |-> <<"a", "b", "1">>, score |-> 9] >>] }

VisionBodies ==
  { [detection |-> [status |-> <<"D", "e", "t", "e", "c", "t", "e", "d">>],
     color |-> [name |-> <<"T", "a", "n">>],
     makes |-> << [label |-> <<"B", "o">>] >>, models |-> << [label |-> <<"C", "d">>] >>],
    [detection |-> [status |-> <<"n", "o">>],
     color |-> UndefR, makes |-> <<>>, models |-> <<>>],
    [detection |-> [status |-> Str_detected],
     color |-> UndefR, makes |-> <<>>, models |-> <<>>],
    [detection |-> UndefR,
     color |-> UndefR, makes |-> <<>>, models |-> <<>>] }

OcrOutcomes ==
  { [kind |-> "ok", status |-> 200, body |-> b] : b \in OcrBodies }
  \cup { [kind |-> "http", status |-> 403, detail |-> d] : d \in {UndefS, "Invalid token."} }
  \cup { [kind |-> "transport", message |-> "fetch failed"] }

VisionOutcomes ==
  { [kind |-> "ok", status |-> 200, body |-> b] : b \in VisionBodies }
  \cup { [kind |-> "http", status |-> 503, detail |-> d] : d \in {UndefS, "Model not loaded."} }
  \cup { [kind |-> "transport", message |-> "fetch failed"] }

\* The part of the upstream behaviour the capture loop is explored with: for
\* the vision service one success and one failure, for the OCR service one
\* success and both kinds of failure.
LoopOcrOutcomes ==
  { oo \in OcrOutcomes :
      \/ oo.kind = "ok" /\ oo.body.results # <<>>
      \/ oo.kind = "http" /\ oo.detail = UndefS
      \/ oo.kind = "transport" }

LoopVisionOutcomes ==
  { vo \in VisionOutcomes :
      \/ vo.kind = "ok" /\ vo.body.detection # UndefR /\ vo.body.makes # <<>>
      \/ vo.kind = "transport" }

Pending == [kind |-> "pending"]

ResponseOk(status) == status \in 200..299

\* --------------------------------------------------- gateway responses
JsonBody ==
  [ocr |-> UndefR, ocrStatus |-> UndefS, ocrSkipReason |-> UndefS,
   vision |-> UndefR, visionStatus |-> UndefS, visionError |-> UndefS,
   error |-> UndefS, details |-> UndefR, results |-> UndefR]

ErrorResponse(status, message, details) ==
  [status |-> status, data |-> [JsonBody EXCEPT !.error = message, !.details = details]]

ServerErrorResponse == ErrorResponse(500, "Unexpected server error. Please try again.", UndefR)

MissingFileResponseNoStatus == ErrorResponse(200, UndefS, UndefR)

MissingFileResponse == ErrorResponse(400, "Image file is required.", UndefR)

MisconfiguredResponse(message) == ErrorResponse(500, message, UndefR)

\* `detail || fallback`
DetailOr(detail, fallback) == IF detail \in {UndefS, NullS, ""} THEN fallback ELSE detail

UpstreamErrorResponse(outcome, fallback) ==
  ErrorResponse(outcome.status, DetailOr(outcome.detail, fallback), [detail |-> outcome.detail])

\* ------------------------------------------------------ gated gateway
VisionStep(vo) ==
  IF vo.kind = "ok"
    THEN [visionData |-> vo.body, visionStatus |-> "success", visionError |-> NullS]
  ELSE IF vo.kind = "http"
    THEN [visionData |-> NullR, visionStatus |-> "error",
          visionError |-> IF vo.detail # UndefS THEN vo.detail ELSE "Vision model request failed."]
  ELSE [visionData |-> NullR, visionStatus |-> "error", visionError |-> vo.message]

DetectionStatus(visionData) ==
  IF visionData \in {NullR, UndefR} THEN AbsentC
  ELSE IF visionData.detection \in {NullR, UndefR} THEN AbsentC
  ELSE visionData.detection.status

shouldCallOcrAnyStatus(vs) == vs.visionStatus = "success"

shouldCallOcr(vs) ==
  /\ vs.visionStatus = "success"
  /\ DetectionStatus(vs.visionData) # AbsentC
  /\ toLowerCase(DetectionStatus(vs.visionData)) = Str_detected

ocrSkipReason(vs) ==
  IF vs.visionStatus = "success" THEN "Vehicle not detected, OCR skipped."
  ELSE IF vs.visionError # NullS THEN vs.visionError
  ELSE "Vision model unavailable, OCR skipped."

GatedResponse(vs, ocrData, ocrStatus, skipReason) ==
  [status |-> 200,
   data |-> [JsonBody EXCEPT !.ocr = ocrData, !.ocrStatus = ocrStatus,
                             !.ocrSkipReason = skipReason,
                             !.vision = vs.visionData,
                             !.visionStatus = vs.visionStatus,
                             !.visionError = vs.visionError]]

GatedSkipped(vs) == GatedResponse(vs, [results |-> <<>>], "skipped", ocrSkipReason(vs))

GatedOcrResultPartial(vs, oo) ==
  IF oo.kind = "transport" THEN ServerErrorResponse
  ELSE IF ~ResponseOk(oo.status) THEN GatedResponse(vs, [results |-> <<>>], "success", NullS)
  ELSE GatedResponse(vs, oo.body, "success", NullS)

GatedOcrResult(vs, oo) ==
  IF oo.kind = "transport" THEN ServerErrorResponse
  ELSE IF ~ResponseOk(oo.status) THEN UpstreamErrorResponse(oo, "Plate OCR request failed.")
  ELSE GatedResponse(vs, oo.body, "success", NullS)

\* ------------------------------------------------- concurrent gateway
ConcurrentJoin(oo, vo) ==
  IF ~ResponseOk(oo.status) THEN UpstreamErrorResponse(oo, "Plate OCR request failed.")
  ELSE IF ~ResponseOk(vo.status) THEN UpstreamErrorResponse(vo, "Vision model request failed.")
  ELSE [status |-> 200, data |-> [JsonBody EXCEPT !.ocr = oo.body, !.vision = vo.body]]

\* ------------------------------------------------------------------ state
VARIABLES
  upstream,         \* [ocr, vision]: the outcomes the upstream services can produce
  variant,          \* deployed gateway: one of GatewayVariants
  ocrKey,           \* process.env holds PLATE_RECOGNIZER_API_KEY or CAR_VISION_API_KEY
  hasMediaDevices,  \* navigator.mediaDevices exists
  mounted,          \* the Home component is mounted (videoRef / canvasRef are set)
  isLiveReady, isLivePaused,             \* useState
  liveReadyRef, livePausedRef, isSendingRef,  \* useRef
  loopRef,          \* id of the interval the controller holds, 0 = null
  intervals,        \* window: ids of the armed setInterval timers
  timeouts,         \* window: number of pending setTimeout(captureFrame, 0)
  streamRef,        \* id of the MediaStream the controller holds, 0 = null
  liveTracks,       \* ids of the MediaStreams whose track is live
  starts,           \* startLiveCamera invocations suspended at each await (counts)
  captures,         \* captureFrame invocations suspended at an await
  liveResult, liveError, liveStatus,     \* useState
  selectedFile, scanResult, error, isLoading,  \* useState (snapshot form)
  submits,          \* handleSubmit invocations suspended at an await
  requests,         \* POST /api/plate requests held by the gateway
  carDatabase,      \* the content of @/data/carDb.json (not part of the sources)
  audit, liveAudit  \* the audit card last rendered for the snapshot / the live result

envVars == <<upstream, variant, ocrKey, hasMediaDevices, carDatabase>>

viewVars == <<audit, liveAudit>>

flagVars == <<isLiveReady, isLivePaused, liveReadyRef, livePausedRef>>

timerVars == <<loopRef, intervals>>

streamVars == <<streamRef, liveTracks>>

liveSlot == <<liveResult, liveError>>

snapVars == <<selectedFile, scanResult, error, isLoading, submits>>

vars == <<envVars, viewVars, mounted, flagVars, isSendingRef, timerVars, timeouts, streamVars,
          starts, captures, liveSlot, liveStatus, snapVars, requests>>

Variants == {"gated", "concurrent"}

\* route.ts holds two versions of the concurrent gateway: lines 1-73 read the
\* OCR key from the environment, lines 75-143 carry it in the code (as does
\* part_003); part_002 is the gateway that calls the OCR service only.
ConcurrentVariants == {"concurrent", "concurrent-env"}

GatewayVariants == Variants \cup {"concurrent-env", "ocr-only"}

readsEnvKey == variant \in {"concurrent-env", "ocr-only"}

StatusIdle == "Camera idle"
StatusRequesting == "Requesting camera access"
StatusStreaming == "Streaming frames (1 fps)"
StatusPaused == "Paused (camera preview still running)"

NotRendered == [rendered |-> FALSE]

\* The component after its first mount, before any render of a result.
InitHome ==
  /\ mounted = TRUE
  /\ isLiveReady = FALSE /\ isLivePaused = FALSE
  /\ liveReadyRef = FALSE /\ livePausedRef = FALSE /\ isSendingRef = FALSE
  /\ loopRef = 0 /\ intervals = {} /\ timeouts = 0
  /\ streamRef = 0 /\ liveTracks = {}
  /\ starts = [getUserMedia |-> 0, play |-> 0] /\ captures = {}
  /\ liveResult = NullR /\ liveError = NullS /\ liveStatus = StatusIdle
  /\ selectedFile = 0 /\ scanResult = NullR /\ error = NullS /\ isLoading = FALSE
  /\ submits = {}
  /\ requests = {}
  /\ audit = NotRendered /\ liveAudit = NotRendered

InitClient ==
  /\ variant \in Variants
  /\ ocrKey = TRUE
  /\ hasMediaDevices \in BOOLEAN
  /\ carDatabase = << [plate |-> <<"a", "b", "1">>, make |-> <<"B", "o">>,
                       model |-> <<"C", "d">>, color |-> <<"T", "a", "n">>,
                       wanted |-> [bool |-> TRUE]] >>
  /\ InitHome

Init ==
  /\ upstream = [ocr |-> LoopOcrOutcomes, vision |-> LoopVisionOutcomes]
  /\ InitClient

\* A state setter called after the component was unmounted changes nothing.
SetState(old, new) == IF mounted THEN new ELSE old

FreshId(used) == CHOOSE n \in 1..(Cardinality(used) + 1) :
                   n \notin used /\ \A m \in 1..(n - 1) : m \in used

\* ------------------------------------------------------------ client data
Truthy(obj) == obj \notin {NullR, UndefR}

ToScanResponseStatusError(data) ==
  [ocr |-> data.ocr,
   vision |-> IF Truthy(data.vision) THEN data.vision ELSE NullR,
   visionStatus |-> IF data.visionStatus \notin {UndefS, NullS} THEN data.visionStatus
                    ELSE "error",
   visionError |-> IF data.visionError \notin {UndefS, NullS} THEN data.visionError
                   ELSE IF Truthy(data.vision) THEN NullS
                   ELSE "Vision service response missing."]

\* captureFrame, lines 339-344
ToScanResponse(data) ==
  [ocr |-> data.ocr,
   vision |-> IF Truthy(data.vision) THEN data.vision ELSE NullR,
   visionStatus |-> IF data.visionStatus \notin {UndefS, NullS} THEN data.visionStatus
                    ELSE IF Truthy(data.vision) THEN "success" ELSE "error",
   visionError |-> IF data.visionError \notin {UndefS, NullS} THEN data.visionError
                   ELSE IF Truthy(data.vision) THEN NullS
                   ELSE "Vision service response missing."]

\* handleSubmit, lines 257-262 (the same mapping, written a second time).
ToSnapshotResponse(data) ==
  [ocr |-> data.ocr,
   vision |-> IF Truthy(data.vision) THEN data.vision ELSE NullR,
   visionStatus |-> IF data.visionStatus \notin {UndefS, NullS} THEN data.visionStatus
                    ELSE IF Truthy(data.vision) THEN "success" ELSE "error",
   visionError |-> IF data.visionError \notin {UndefS, NullS} THEN data.visionError
                   ELSE IF Truthy(data.vision) THEN NullS
                   ELSE "Vision service response missing."]

ResponseRejected(response) == ~ResponseOk(response.status) \/ ~Truthy(response.data.ocr)

ErrorOr(data, fallback) == IF data.error \in {UndefS, NullS} THEN fallback ELSE data.error

\* ---------------------------------------------------------------- gateway
NoCall == [kind |-> "none"]

InitialVision == [visionData |-> NullR, visionStatus |-> "error", visionError |-> NullS]

NoResponse == [status |-> 0, data |-> JsonBody]

NewRequest(id, client, hasFile) ==
  [id |-> id, client |-> client, hasFile |-> hasFile, pc |-> "recv",
   vs |-> InitialVision, ocr |-> NoCall, vision |-> NoCall, response |-> NoResponse]

Replace(r, r2) == requests' = (requests \ {r}) \cup {r2}

Responded(r, response) == [r EXCEPT !.pc = "responded", !.response = response]

clientVars == <<mounted, flagVars, isSendingRef, timerVars, timeouts, streamVars,
                starts, captures, liveSlot, liveStatus, snapVars>>

\* part_003 POST, lines 17-44: read the upload, reject a missing file, call vision.
GatedPost(r) ==
  /\ variant = "gated" /\ r.pc = "recv"
  /\ Replace(r, IF ~r.hasFile THEN Responded(r, MissingFileResponse)
                ELSE [r EXCEPT !.pc = "vision", !.vision = Pending])
  /\ UNCHANGED <<envVars, viewVars, clientVars>>

\* part_003 POST, lines 45-106 up to the OCR fetch: the vision call settles.
GatedVisionDone(r, vo) ==
  /\ variant = "gated" /\ r.pc = "vision"
  /\ LET vs == VisionStep(vo)
     IN Replace(r, IF shouldCallOcr(vs)
                     THEN [r EXCEPT !.pc = "ocr", !.vision = vo, !.vs = vs, !.ocr = Pending]
                     ELSE Responded([r EXCEPT !.vision = vo, !.vs = vs], GatedSkipped(vs)))
  /\ UNCHANGED <<envVars, viewVars, clientVars>>

\* part_003 POST, lines 71-110: the OCR call settles.
GatedOcrDone(r, oo) ==
  /\ variant = "gated" /\ r.pc = "ocr"
  /\ Replace(r, Responded([r EXCEPT !.ocr = oo], GatedOcrResult(r.vs, oo)))
  /\ UNCHANGED <<envVars, viewVars, clientVars>>

\* route.ts POST, lines 6-44 (and 81-113 without the key check): reject a
\* missing key, read the upload, reject a missing file, issue both calls.
ConcurrentPost(r) ==
  /\ variant \in ConcurrentVariants /\ r.pc = "recv"
  /\ Replace(r, IF readsEnvKey /\ ~ocrKey
                  THEN Responded(r, MisconfiguredResponse(
                         "Server misconfiguration. Missing Plate OCR API key."))
                ELSE IF ~r.hasFile THEN Responded(r, MissingFileResponse)
                ELSE [r EXCEPT !.pc = "both", !.ocr = Pending, !.vision = Pending])
  /\ UNCHANGED <<envVars, viewVars, clientVars>>

\* route.ts, Promise.all over the two fetches: a rejected fetch rejects the
\* join at once and the catch answers 500.
ConcurrentOcrSettled(r, oo) ==
  /\ variant \in ConcurrentVariants /\ r.pc = "both" /\ r.ocr = Pending
  /\ Replace(r, IF oo.kind = "transport"
                  THEN Responded([r EXCEPT !.ocr = oo], ServerErrorResponse)
                  ELSE [r EXCEPT !.ocr = oo])
  /\ UNCHANGED <<envVars, viewVars, clientVars>>

ConcurrentVisionSettled(r, vo) ==
  /\ variant \in ConcurrentVariants /\ r.pc = "both" /\ r.vision = Pending
  /\ Replace(r, IF vo.kind = "transport"
                  THEN Responded([r EXCEPT !.vision = vo], ServerErrorResponse)
                  ELSE [r EXCEPT !.vision = vo])
  /\ UNCHANGED <<envVars, viewVars, clientVars>>

\* route.ts, lines 115-137: both fetches resolved; parse and merge.
ConcurrentMerge(r) ==
  /\ variant \in ConcurrentVariants /\ r.pc = "both" /\ r.ocr # Pending /\ r.vision # Pending
  /\ Replace(r, Responded(r, ConcurrentJoin(r.ocr, r.vision)))
  /\ UNCHANGED <<envVars, viewVars, clientVars>>

\* part_002 POST, lines 5-30: reject a missing key, read the upload, reject a
\* missing file, call the OCR service.
OcrOnlyPost(r) ==
  /\ variant = "ocr-only" /\ r.pc = "recv"
  /\ Replace(r, IF readsEnvKey /\ ~ocrKey
                  THEN Responded(r, MisconfiguredResponse(
                         "Server misconfiguration. Missing vision API key."))
                ELSE IF ~r.hasFile THEN Responded(r, MissingFileResponse)
                ELSE [r EXCEPT !.pc = "ocr", !.ocr = Pending])
  /\ UNCHANGED <<envVars, viewVars, clientVars>>

\* part_002 POST, lines 32-48: the OCR answer is passed on as it is.
OcrOnlyResult(oo) ==
  IF oo.kind = "transport" THEN ServerErrorResponse
  ELSE IF ~ResponseOk(oo.status) THEN UpstreamErrorResponse(oo, "Vision API request failed.")
  ELSE [status |-> 200, data |-> [JsonBody EXCEPT !.results = oo.body.results]]

OcrOnlyDone(r, oo) ==
  /\ variant = "ocr-only" /\ r.pc = "ocr"
  /\ Replace(r, Responded([r EXCEPT !.ocr = oo], OcrOnlyResult(oo)))
  /\ UNCHANGED <<envVars, viewVars, clientVars>>

Gateway ==
  \E r \in requests :
    \/ OcrOnlyPost(r)
    \/ \E oo \in upstream.ocr : OcrOnlyDone(r, oo)
    \/ GatedPost(r)
    \/ \E vo \in upstream.vision : GatedVisionDone(r, vo)
    \/ \E oo \in upstream.ocr : GatedOcrDone(r, oo)
    \/ ConcurrentPost(r)
    \/ \E oo \in upstream.ocr : ConcurrentOcrSettled(r, oo)
    \/ \E vo \in upstream.vision : ConcurrentVisionSettled(r, vo)
    \/ ConcurrentMerge(r)

\* ----------------------------------------------------- capture loop (client)
startIntervalClearOnly ==
  /\ loopRef' = 0
  /\ intervals' = intervals \ {loopRef}

\* startInterval, lines 273-281
startInterval ==
  /\ loopRef' = FreshId(intervals \ {loopRef})
  /\ intervals' = (intervals \ {loopRef}) \cup {loopRef'}

clearLoop ==
  /\ intervals' = intervals \ {loopRef}
  /\ loopRef' = 0

\* captureFrame, lines 283-311: the synchronous part up to the first await.
captureGuardIgnoresSending == liveReadyRef /\ ~livePausedRef

captureGuard == liveReadyRef /\ ~livePausedRef /\ ~isSendingRef

captureFrameGuardUnset(frameReady) ==
  IF captureGuard /\ mounted /\ frameReady
    THEN /\ isSendingRef' = isSendingRef
         /\ captures' = captures \cup
              {[id |-> FreshId({c.id : c \in captures}), pc |-> "toBlob", response |-> NoResponse]}
    ELSE UNCHANGED <<isSendingRef, captures>>

captureFrame(frameReady) ==
  IF captureGuard /\ mounted /\ frameReady
    THEN /\ isSendingRef' = TRUE
         /\ captures' = captures \cup
              {[id |-> FreshId({c.id : c \in captures}), pc |-> "toBlob", response |-> NoResponse]}
    ELSE UNCHANGED <<isSendingRef, captures>>

TimerTick ==
  /\ intervals # {}
  /\ Cardinality(captures) < MaxCaptures
  /\ \E frameReady \in BOOLEAN : captureFrame(frameReady)
  /\ UNCHANGED <<envVars, viewVars, mounted, flagVars, timerVars, timeouts, streamVars, starts,
                 liveSlot, liveStatus, snapVars, requests>>

TimeoutFire ==
  /\ timeouts > 0
  /\ Cardinality(captures) < MaxCaptures
  /\ timeouts' = timeouts - 1
  /\ \E frameReady \in BOOLEAN : captureFrame(frameReady)
  /\ UNCHANGED <<envVars, viewVars, mounted, flagVars, timerVars, streamVars, starts,
                 liveSlot, liveStatus, snapVars, requests>>

ToBlobDoneKeepsGuard(c, blobOk) ==
  /\ c.pc = "toBlob"
  /\ IF blobOk
       THEN /\ captures' = (captures \ {c}) \cup {[c EXCEPT !.pc = "fetch"]}
            /\ requests' = requests \cup {NewRequest(c.id, "live", TRUE)}
            /\ UNCHANGED <<isSendingRef, liveSlot>>
       ELSE /\ captures' = captures \ {c}
            /\ liveError' = SetState(liveError, "Unable to capture camera frame.")
            /\ UNCHANGED <<isSendingRef, requests, liveResult>>
  /\ UNCHANGED <<envVars, viewVars, mounted, flagVars, timerVars, timeouts, streamVars, starts,
                 liveStatus, snapVars>>

\* captureFrame, lines 313-324: toBlob called back; a null blob throws.
ToBlobDone(c, blobOk) ==
  /\ c.pc = "toBlob"
  /\ IF blobOk
       THEN /\ captures' = (captures \ {c}) \cup {[c EXCEPT !.pc = "fetch"]}
            /\ requests' = requests \cup {NewRequest(c.id, "live", TRUE)}
            /\ UNCHANGED <<isSendingRef, liveSlot>>
       ELSE /\ captures' = captures \ {c}
            /\ liveError' = SetState(liveError, "Unable to capture camera frame.")
            /\ isSendingRef' = FALSE
            /\ UNCHANGED <<requests, liveResult>>
  /\ UNCHANGED <<envVars, viewVars, mounted, flagVars, timerVars, timeouts, streamVars, starts,
                 liveStatus, snapVars>>

\* captureFrame, line 321: the fetch resolves with the gateway's response.
FetchResolve(c, r) ==
  /\ c.pc = "fetch" /\ r.client = "live" /\ r.id = c.id /\ r.pc = "responded"
  /\ captures' = (captures \ {c}) \cup {[c EXCEPT !.pc = "json", !.response = r.response]}
  /\ requests' = requests \ {r}
  /\ UNCHANGED <<envVars, viewVars, mounted, flagVars, isSendingRef, timerVars, timeouts, streamVars,
                 starts, liveSlot, liveStatus, snapVars>>

FetchRejectKeepsGuard(c) ==
  /\ c.pc = "fetch"
  /\ captures' = captures \ {c}
  /\ requests' = {r \in requests : ~(r.client = "live" /\ r.id = c.id)}
  /\ liveError' = SetState(liveError, "Failed to fetch")
  /\ UNCHANGED <<envVars, viewVars, mounted, flagVars, isSendingRef, timerVars, timeouts,
                 streamVars, starts, liveResult, liveStatus, snapVars>>

\* captureFrame, line 321 and 347-352: the fetch rejects (transport failure).
FetchReject(c) ==
  /\ c.pc = "fetch"
  /\ captures' = captures \ {c}
  /\ requests' = {r \in requests : ~(r.client = "live" /\ r.id = c.id)}
  /\ liveError' = SetState(liveError, "Failed to fetch")
  /\ isSendingRef' = FALSE
  /\ UNCHANGED <<envVars, viewVars, mounted, flagVars, timerVars, timeouts, streamVars, starts,
                 liveResult, liveStatus, snapVars>>

JsonDoneUnlessPaused(c) ==
  /\ c.pc = "json"
  /\ captures' = captures \ {c}
  /\ IF livePausedRef
       THEN UNCHANGED liveSlot
       ELSE IF ResponseRejected(c.response)
         THEN /\ liveError' = SetState(liveError, ErrorOr(c.response.data, "Live scan failed."))
              /\ UNCHANGED liveResult
         ELSE /\ liveResult' = SetState(liveResult, ToScanResponse(c.response.data))
              /\ liveError' = SetState(liveError, NullS)
  /\ isSendingRef' = FALSE
  /\ UNCHANGED <<envVars, viewVars, mounted, flagVars, timerVars, timeouts, streamVars, starts,
                 liveStatus, snapVars, requests>>

\* captureFrame, lines 326-352: the body is parsed and applied.
JsonDone(c) ==
  /\ c.pc = "json"
  /\ captures' = captures \ {c}
  /\ IF ResponseRejected(c.response)
       THEN /\ liveError' = SetState(liveError, ErrorOr(c.response.data, "Live scan failed."))
            /\ UNCHANGED liveResult
       ELSE /\ liveResult' = SetState(liveResult, ToScanResponse(c.response.data))
            /\ liveError' = SetState(liveError, NullS)
  /\ isSendingRef' = FALSE
  /\ UNCHANGED <<envVars, viewVars, mounted, flagVars, timerVars, timeouts, streamVars, starts,
                 liveStatus, snapVars, requests>>

beginStreamingNoCapture ==
  /\ liveReadyRef' = TRUE /\ livePausedRef' = FALSE
  /\ isLiveReady' = SetState(isLiveReady, TRUE)
  /\ isLivePaused' = SetState(isLivePaused, FALSE)
  /\ liveResult' = SetState(liveResult, NullR)
  /\ liveStatus' = SetState(liveStatus, StatusStreaming)
  /\ liveError' = SetState(liveError, NullS)
  /\ startInterval
  /\ timeouts' = timeouts

\* startLiveCamera, lines 396-406: the camera is playing; begin streaming.
beginStreaming ==
  /\ timeouts < MaxTimeouts
  /\ liveReadyRef' = TRUE /\ livePausedRef' = FALSE
  /\ isLiveReady' = SetState(isLiveReady, TRUE)
  /\ isLivePaused' = SetState(isLivePaused, FALSE)
  /\ liveResult' = SetState(liveResult, NullR)
  /\ liveStatus' = SetState(liveStatus, StatusStreaming)
  /\ liveError' = SetState(liveError, NullS)
  /\ startInterval
  /\ timeouts' = timeouts + 1

startFailedNoMessage(message) ==
  /\ liveError' = liveError
  /\ liveStatus' = SetState(liveStatus, StatusIdle)
  /\ UNCHANGED <<flagVars, timerVars, timeouts, liveResult>>

\* startLiveCamera, lines 407-411: the catch block.
startFailed(message) ==
  /\ liveError' = SetState(liveError, message)
  /\ liveStatus' = SetState(liveStatus, StatusIdle)
  /\ UNCHANGED <<flagVars, timerVars, timeouts, liveResult>>

\* The "Start camera" button (line 849) is enabled unless streaming; the
\* handler (lines 355-377) runs up to its first await.
startLiveCamera ==
  /\ mounted
  /\ ~(isLiveReady /\ ~isLivePaused)
  /\ \/ /\ ~hasMediaDevices
        /\ liveError' = "Camera is not available in this browser."
        /\ liveStatus' = StatusIdle
        /\ UNCHANGED <<flagVars, timerVars, timeouts, starts, liveResult>>
     \/ /\ hasMediaDevices /\ isLivePaused
        /\ timeouts < MaxTimeouts
        /\ livePausedRef' = FALSE
        /\ isLivePaused' = FALSE
        /\ liveStatus' = StatusStreaming
        /\ startInterval
        /\ timeouts' = timeouts + 1
        /\ UNCHANGED <<isLiveReady, liveReadyRef, starts, liveSlot>>
     \/ /\ hasMediaDevices /\ ~isLivePaused
        /\ starts.getUserMedia + starts.play < MaxStarts
        /\ liveStatus' = StatusRequesting
        /\ starts' = [starts EXCEPT !.getUserMedia = @ + 1]
        /\ UNCHANGED <<flagVars, timerVars, timeouts, liveSlot>>
  /\ UNCHANGED <<envVars, viewVars, mounted, isSendingRef, streamVars, captures, snapVars, requests>>

StreamIdsInUse == liveTracks \cup {streamRef}

\* startLiveCamera, lines 379-389: getUserMedia resolves with a new stream.
GetUserMediaResolve ==
  /\ starts.getUserMedia > 0
  /\ \E id \in 1..MaxStreams :
       /\ id \notin StreamIdsInUse
       /\ \A m \in 1..(id - 1) : m \in StreamIdsInUse
       /\ liveTracks' = liveTracks \cup {id}
       /\ streamRef' = id
       /\ IF mounted
            THEN /\ starts' = [starts EXCEPT !.getUserMedia = @ - 1, !.play = @ + 1]
                 /\ UNCHANGED <<flagVars, timerVars, timeouts, liveSlot, liveStatus>>
            ELSE /\ starts' = [starts EXCEPT !.getUserMedia = @ - 1]
                 /\ beginStreaming
  /\ UNCHANGED <<envVars, viewVars, mounted, isSendingRef, captures, snapVars, requests>>

\* startLiveCamera, lines 379 and 407-411: getUserMedia rejects.
GetUserMediaReject ==
  /\ starts.getUserMedia > 0
  /\ starts' = [starts EXCEPT !.getUserMedia = @ - 1]
  /\ startFailed("Permission denied")
  /\ UNCHANGED <<envVars, viewVars, mounted, isSendingRef, streamVars, captures, snapVars, requests>>

\* startLiveCamera, lines 389-406: play() resolves.
PlayResolve ==
  /\ starts.play > 0
  /\ starts' = [starts EXCEPT !.play = @ - 1]
  /\ beginStreaming
  /\ UNCHANGED <<envVars, viewVars, mounted, isSendingRef, streamVars, captures, snapVars, requests>>

\* startLiveCamera, lines 389 and 407-411: play() rejects.
PlayReject ==
  /\ starts.play > 0
  /\ starts' = [starts EXCEPT !.play = @ - 1]
  /\ startFailed("The play() request was interrupted")
  /\ UNCHANGED <<envVars, viewVars, mounted, isSendingRef, streamVars, captures, snapVars, requests>>

pauseLiveCameraAnyState ==
  /\ mounted
  /\ clearLoop
  /\ livePausedRef' = TRUE
  /\ isLivePaused' = TRUE
  /\ liveStatus' = StatusPaused
  /\ UNCHANGED <<envVars, viewVars, mounted, isLiveReady, liveReadyRef, isSendingRef, timeouts,
                 streamVars, starts, captures, liveSlot, snapVars, requests>>

\* The "Pause capture" button (line 852) and pauseLiveCamera, lines 414-427.
pauseLiveCamera ==
  /\ mounted
  /\ isLiveReady /\ ~isLivePaused
  /\ clearLoop
  /\ livePausedRef' = TRUE
  /\ isLivePaused' = TRUE
  /\ liveStatus' = StatusPaused
  /\ UNCHANGED <<envVars, viewVars, mounted, isLiveReady, liveReadyRef, isSendingRef, timeouts,
                 streamVars, starts, captures, liveSlot, snapVars, requests>>

\* The "Stop camera" button (line 855) and stopLiveCamera, lines 429-451.
stopLiveCamera ==
  /\ mounted
  /\ isLiveReady
  /\ clearLoop
  /\ liveTracks' = liveTracks \ {streamRef}
  /\ streamRef' = 0
  /\ liveReadyRef' = FALSE /\ livePausedRef' = FALSE
  /\ isLiveReady' = FALSE /\ isLivePaused' = FALSE
  /\ liveResult' = NullR
  /\ liveStatus' = StatusIdle
  /\ liveError' = NullS
  /\ UNCHANGED <<envVars, viewVars, mounted, isSendingRef, timeouts, starts, captures, snapVars,
                 requests>>

\* The cleanup of the mount effect, lines 174-186; React clears the element refs.
Unmount ==
  /\ mounted
  /\ mounted' = FALSE
  /\ clearLoop
  /\ liveTracks' = liveTracks \ {streamRef}
  /\ streamRef' = 0
  /\ UNCHANGED <<envVars, viewVars, flagVars, isSendingRef, timeouts, starts, captures,
                 liveSlot, liveStatus, snapVars, requests>>

CaptureLoop ==
  \/ startLiveCamera
  \/ GetUserMediaResolve
  \/ GetUserMediaReject
  \/ PlayResolve
  \/ PlayReject
  \/ pauseLiveCamera
  \/ stopLiveCamera
  \/ TimerTick
  \/ TimeoutFire
  \/ \E c \in captures : \E blobOk \in BOOLEAN : ToBlobDone(c, blobOk)
  \/ \E c \in captures : \E r \in requests : FetchResolve(c, r)
  \/ \E c \in captures : FetchReject(c)
  \/ \E c \in captures : JsonDone(c)

\* ------------------------------------------------------- snapshot form
loopVars == <<flagVars, isSendingRef, timerVars, timeouts, streamVars, starts, captures,
              liveSlot, liveStatus>>

\* handleFileChange, lines 196-211
handleFileChange(file) ==
  /\ mounted
  /\ selectedFile' = file
  /\ scanResult' = NullR
  /\ error' = NullS
  /\ UNCHANGED <<envVars, viewVars, mounted, loopVars, isLoading, submits, requests>>

\* A variant of resetSelection that clears the live panel's slots with the
\* snapshot's, which the source does not do.
resetSelectionAllSlots ==
  /\ mounted
  /\ selectedFile # 0 /\ ~isLoading
  /\ selectedFile' = 0
  /\ scanResult' = NullR
  /\ error' = NullS
  /\ liveResult' = NullR
  /\ liveError' = NullS
  /\ UNCHANGED <<envVars, audit, liveAudit, liveStatus, mounted, flagVars, isSendingRef,
                 timerVars, timeouts, streamVars, starts, captures,
                 isLoading, submits, requests>>

\* The "Remove photo" button (line 682) and resetSelection, lines 213-222.
resetSelection ==
  /\ mounted
  /\ selectedFile # 0 /\ ~isLoading
  /\ selectedFile' = 0
  /\ scanResult' = NullR
  /\ error' = NullS
  /\ UNCHANGED <<envVars, viewVars, mounted, loopVars, isLoading, submits, requests>>

\* The "Detect plate" button (line 685) and handleSubmit, lines 224-242.
handleSubmit ==
  /\ mounted
  /\ selectedFile # 0 /\ ~isLoading
  /\ isLoading' = TRUE
  /\ error' = NullS
  /\ LET id == FreshId({s.id : s \in submits})
     IN /\ submits' = submits \cup
             {[id |-> id, file |-> selectedFile, pc |-> "fetch", response |-> NoResponse]}
        /\ requests' = requests \cup {NewRequest(id, "snap", TRUE)}
  /\ UNCHANGED <<envVars, viewVars, mounted, loopVars, selectedFile, scanResult>>

\* handleSubmit, line 239: the fetch resolves with the gateway's response.
SubmitFetchResolve(s, r) ==
  /\ s.pc = "fetch" /\ r.client = "snap" /\ r.id = s.id /\ r.pc = "responded"
  /\ submits' = (submits \ {s}) \cup {[s EXCEPT !.pc = "json", !.response = r.response]}
  /\ requests' = requests \ {r}
  /\ UNCHANGED <<envVars, viewVars, mounted, loopVars, selectedFile, scanResult, error, isLoading>>

\* A variant of SubmitFetchReject that keeps the previous result next to the
\* error, as the live panel does.
SubmitFetchRejectKeepsResult(s) ==
  /\ s.pc = "fetch"
  /\ submits' = submits \ {s}
  /\ requests' = {r \in requests : ~(r.client = "snap" /\ r.id = s.id)}
  /\ error' = SetState(error, "Failed to fetch")
  /\ isLoading' = SetState(isLoading, FALSE)
  /\ UNCHANGED <<envVars, viewVars, mounted, loopVars, selectedFile, scanResult>>

\* handleSubmit, lines 239 and 264-270: the fetch rejects.
SubmitFetchReject(s) ==
  /\ s.pc = "fetch"
  /\ submits' = submits \ {s}
  /\ requests' = {r \in requests : ~(r.client = "snap" /\ r.id = s.id)}
  /\ error' = SetState(error, "Failed to fetch")
  /\ scanResult' = SetState(scanResult, NullR)
  /\ isLoading' = SetState(isLoading, FALSE)
  /\ UNCHANGED <<envVars, viewVars, mounted, loopVars, selectedFile>>

\* handleSubmit, lines 244-270: the body is parsed and applied.
SubmitJsonDone(s) ==
  /\ s.pc = "json"
  /\ submits' = submits \ {s}
  /\ IF ResponseRejected(s.response)
       THEN /\ error' = SetState(error, ErrorOr(s.response.data,
                                   "Unable to process the image. Please try again."))
            /\ scanResult' = SetState(scanResult, NullR)
       ELSE /\ scanResult' = SetState(scanResult, ToSnapshotResponse(s.response.data))
            /\ UNCHANGED error
  /\ isLoading' = SetState(isLoading, FALSE)
  /\ UNCHANGED <<envVars, viewVars, mounted, loopVars, selectedFile, requests>>

Snapshot ==
  \/ \E file \in 1..MaxFiles : handleFileChange(file)
  \/ resetSelection
  \/ handleSubmit
  \/ \E s \in submits : \E r \in requests : SubmitFetchResolve(s, r)
  \/ \E s \in submits : SubmitFetchReject(s)
  \/ \E s \in submits : SubmitJsonDone(s)

\* ------------------------------------------------ compliance evaluator
BooleanTextNonNull(text) == text \notin {AbsentC, NullC}

\* Boolean(text) of a string, null or undefined
BooleanText(text) == text \notin {AbsentC, NullC, <<>>}

BooleanFlagStrict(flag) ==
  IF flag \in {NullR, UndefR} THEN FALSE
  ELSE IF "bool" \in DOMAIN flag THEN flag.bool
  ELSE FALSE

\* Boolean(entry.wanted) of a boolean, a number or a missing flag, line 120
BooleanFlag(flag) ==
  IF flag \in {NullR, UndefR} THEN FALSE
  ELSE IF "bool" \in DOMAIN flag THEN flag.bool
  ELSE flag.num # 0

\* lines 115-121
CAR_DB ==
  [i \in 1..Len(carDatabase) |->
     [plate |-> toUpperCase(carDatabase[i].plate),
      make |-> carDatabase[i].make,
      model |-> carDatabase[i].model,
      color |-> carDatabase[i].color,
      wanted |-> BooleanFlag(carDatabase[i].wanted)]]

normalizeValueNoTrim(value) ==
  IF value \in {AbsentC, NullC} THEN NullC ELSE toLowerCase(value)

\* line 123
normalizeValue(value) ==
  IF value \in {AbsentC, NullC} THEN NullC ELSE toLowerCase(trim(value))

NearMiss(key, plate) ==
  /\ Len(key) = Len(plate)
  /\ \A k \in 1..(Len(plate) - 1) : key[k] = plate[k]

findNearMiss(entries, plate) ==
  IF \E i \in 1..Len(entries) : NearMiss(entries[i].plate, plate)
    THEN entries[CHOOSE i \in 1..Len(entries) : NearMiss(entries[i].plate, plate)]
    ELSE UndefR

\* Array.prototype.find over the registry: the first entry with the plate
find(entries, plate) ==
  IF \E i \in 1..Len(entries) : entries[i].plate = plate
    THEN entries[CHOOSE i \in 1..Len(entries) :
                   /\ entries[i].plate = plate
                   /\ \A j \in 1..(i - 1) : entries[j].plate # plate]
    ELSE UndefR

sliceLabelsAll(predictions) == [i \in 1..Len(predictions) |-> predictions[i].label]

\* predictions.slice(0, 3).map((item) => item.label)
sliceLabels(predictions) ==
  [i \in 1..(IF Len(predictions) < 3 THEN Len(predictions) ELSE 3) |-> predictions[i].label]

\* labels.map(normalizeValue).filter(Boolean)
normalizedPredictions(labels) ==
  SelectSeq([i \in 1..Len(labels) |-> normalizeValue(labels[i])], BooleanText)

includesFirst(list, value) == list # <<>> /\ list[1] = value

includes(list, value) == \E i \in 1..Len(list) : list[i] = value

RECURSIVE join(_, _)
join(labels, separator) ==
  IF labels = <<>> THEN <<>>
  ELSE IF Len(labels) = 1 THEN labels[1]
  ELSE labels[1] \o separator \o join(Tail(labels), separator)

\* The mismatch messages (template strings): which field, the expected
\* registry value and what was found instead.
NoPredictionsReason(field, expected) ==
  [field |-> field, expected |-> expected, found |-> "no predictions were returned"]

WrongValueReason(field, expected, labels) ==
  [field |-> field, expected |-> expected,
   predictions |-> IF join(labels, <<",", " ">>) # <<>> THEN join(labels, <<",", " ">>)
                   ELSE <<"not available">>]

ColorReason(expected, label) ==
  [field |-> "color", expected |-> expected,
   detected |-> IF label # NullC THEN label ELSE <<"Unknown">>]

\* --- snapshot result, lines 453-481
topResult ==
  IF Truthy(scanResult) /\ Truthy(scanResult.ocr) /\ scanResult.ocr.results # <<>>
    THEN scanResult.ocr.results[1] ELSE UndefR

visionStatus ==
  IF Truthy(scanResult) /\ scanResult.visionStatus \notin {NullS, UndefS}
    THEN scanResult.visionStatus ELSE "error"

visionAvailableAnyStatus == Truthy(scanResult) /\ Truthy(scanResult.vision)

visionAvailable ==
  visionStatus = "success" /\ Truthy(scanResult) /\ Truthy(scanResult.vision)

topMakeLabels ==
  IF Truthy(scanResult) /\ Truthy(scanResult.vision)
    THEN sliceLabels(scanResult.vision.makes) ELSE <<>>

topModelLabels ==
  IF Truthy(scanResult) /\ Truthy(scanResult.vision)
    THEN sliceLabels(scanResult.vision.models) ELSE <<>>

topColorLabel ==
  IF Truthy(scanResult) /\ Truthy(scanResult.vision) /\ Truthy(scanResult.vision.color)
    THEN scanResult.vision.color.name ELSE NullC

primaryPlate ==
  IF topResult # UndefR /\ topResult.plate # AbsentC
    THEN toUpperCase(topResult.plate) ELSE NullC

\* lines 510-557
compliance ==
  IF ~BooleanText(primaryPlate) THEN [status |-> "no-plate"]
  ELSE
    LET record == find(CAR_DB, primaryPlate) IN
    IF ~visionAvailable
      THEN IF record # UndefR THEN [status |-> "vision-missing", record |-> record]
           ELSE [status |-> "vision-missing"]
    ELSE IF record = UndefR THEN [status |-> "unknown"]
    ELSE
      LET recordMake == normalizeValue(record.make)
          recordModel == normalizeValue(record.model)
          recordColor == normalizeValue(record.color)
          makePredictions == normalizedPredictions(topMakeLabels)
          modelPredictions == normalizedPredictions(topModelLabels)
          detectedColor == normalizeValue(topColorLabel)
          makeReasons ==
            IF ~BooleanText(recordMake) THEN <<>>
            ELSE IF makePredictions = <<>> THEN << NoPredictionsReason("make", record.make) >>
            ELSE IF ~includes(makePredictions, recordMake)
              THEN << WrongValueReason("make", record.make, topMakeLabels) >>
            ELSE <<>>
          modelReasons ==
            IF ~BooleanText(recordModel) THEN <<>>
            ELSE IF modelPredictions = <<>> THEN << NoPredictionsReason("model", record.model) >>
            ELSE IF ~includes(modelPredictions, recordModel)
              THEN << WrongValueReason("model", record.model, topModelLabels) >>
            ELSE <<>>
          colorReasons ==
            IF BooleanText(recordColor) /\ BooleanText(detectedColor)
               /\ recordColor # detectedColor
              THEN << ColorReason(record.color, topColorLabel) >>
              ELSE <<>>
          mismatches == makeReasons \o modelReasons \o colorReasons
      IN IF Len(mismatches) > 0
           THEN [status |-> "mismatch", record |-> record, mismatches |-> mismatches]
           ELSE [status |-> "match", record |-> record]

\* lines 610-621
complianceRecord(verdict) ==
  IF verdict.status \in {"match", "mismatch", "vision-missing"} /\ "record" \in DOMAIN verdict
    THEN verdict.record ELSE NullR

mismatchList(verdict) == IF verdict.status = "mismatch" THEN verdict.mismatches ELSE <<>>

auditClass(verdict) ==
  LET record == complianceRecord(verdict)
  IN IF record # NullR /\ record.wanted THEN "auditWanted"
     ELSE IF verdict.status = "match" THEN "auditMatch"
     ELSE IF verdict.status = "mismatch" THEN "auditMismatch"
     ELSE "auditNeutral"

\* The audit card of the snapshot results, lines 702 and 741-778: drawn only when
\* the result lists at least one plate.
auditCard(verdict) ==
  LET record == complianceRecord(verdict)
  IN IF Truthy(scanResult) /\ Truthy(scanResult.ocr) /\ scanResult.ocr.results # <<>>
       THEN [auditClass |-> auditClass(verdict),
             wantedNotice |-> record # NullR /\ record.wanted,
             status |-> verdict.status,
             record |-> record,
             mismatches |-> mismatchList(verdict)]
       ELSE NullR

\* One render of Home with the current snapshot result.
RenderResults ==
  /\ mounted
  /\ LET verdict == compliance
     IN audit' = [rendered |-> TRUE, compliance |-> verdict, card |-> auditCard(verdict)]
  /\ UNCHANGED <<envVars, liveAudit, clientVars, requests>>

\* --- live result, lines 454 and 482-501
topLivePlate ==
  IF Truthy(liveResult) /\ Truthy(liveResult.ocr) /\ liveResult.ocr.results # <<>>
    THEN liveResult.ocr.results[1] ELSE UndefR

liveVisionStatus ==
  IF Truthy(liveResult) /\ liveResult.visionStatus \notin {NullS, UndefS}
    THEN liveResult.visionStatus ELSE "error"

liveVisionAvailable ==
  liveVisionStatus = "success" /\ Truthy(liveResult) /\ Truthy(liveResult.vision)

liveTopMakeLabels ==
  IF Truthy(liveResult) /\ Truthy(liveResult.vision)
    THEN sliceLabels(liveResult.vision.makes) ELSE <<>>

liveTopModelLabels ==
  IF Truthy(liveResult) /\ Truthy(liveResult.vision)
    THEN sliceLabels(liveResult.vision.models) ELSE <<>>

liveColorLabel ==
  IF Truthy(liveResult) /\ Truthy(liveResult.vision) /\ Truthy(liveResult.vision.color)
    THEN liveResult.vision.color.name ELSE NullC

livePlate ==
  IF topLivePlate # UndefR /\ topLivePlate.plate # AbsentC
    THEN toUpperCase(topLivePlate.plate) ELSE NullC

\* lines 559-608
liveCompliance ==
  IF ~BooleanText(livePlate) THEN [status |-> "no-plate"]
  ELSE
    LET record == find(CAR_DB, livePlate) IN
    IF ~liveVisionAvailable
      THEN IF record # UndefR THEN [status |-> "vision-missing", record |-> record]
           ELSE [status |-> "vision-missing"]
    ELSE IF record = UndefR THEN [status |-> "unknown"]
    ELSE
      LET recordMake == normalizeValue(record.make)
          recordModel == normalizeValue(record.model)
          recordColor == normalizeValue(record.color)
          makePredictions == normalizedPredictions(liveTopMakeLabels)
          modelPredictions == normalizedPredictions(liveTopModelLabels)
          detectedColor == normalizeValue(liveColorLabel)
          makeReasons ==
            IF ~BooleanText(recordMake) THEN <<>>
            ELSE IF makePredictions = <<>> THEN << NoPredictionsReason("make", record.make) >>
            ELSE IF ~includes(makePredictions, recordMake)
              THEN << WrongValueReason("make", record.make, liveTopMakeLabels) >>
            ELSE <<>>
          modelReasons ==
            IF ~BooleanText(recordModel) THEN <<>>
            ELSE IF modelPredictions = <<>> THEN << NoPredictionsReason("model", record.model) >>
            ELSE IF ~includes(modelPredictions, recordModel)
              THEN << WrongValueReason("model", record.model, liveTopModelLabels) >>
            ELSE <<>>
          colorReasons ==
            IF BooleanText(recordColor) /\ BooleanText(detectedColor)
               /\ recordColor # detectedColor
              THEN << ColorReason(record.color, liveColorLabel) >>
              ELSE <<>>
          mismatches == makeReasons \o modelReasons \o colorReasons
      IN IF Len(mismatches) > 0
           THEN [status |-> "mismatch", record |-> record, mismatches |-> mismatches]
           ELSE [status |-> "match", record |-> record]

liveComplianceRecordCompared(verdict) ==
  IF verdict.status \in {"match", "mismatch"} /\ "record" \in DOMAIN verdict
    THEN verdict.record ELSE NullR

\* lines 623-631
liveComplianceRecord(verdict) ==
  IF verdict.status \in {"match", "mismatch", "vision-missing"} /\ "record" \in DOMAIN verdict
    THEN verdict.record ELSE NullR

liveMismatchList(verdict) == IF verdict.status = "mismatch" THEN verdict.mismatches ELSE <<>>

liveAuditClass(verdict) ==
  LET record == liveComplianceRecord(verdict)
  IN IF record # NullR /\ record.wanted THEN "auditWanted"
     ELSE IF verdict.status = "match" THEN "auditMatch"
     ELSE IF verdict.status = "mismatch" THEN "auditMismatch"
     ELSE "auditNeutral"

\* The audit card of the live results, lines 863 and 903-950: drawn only when
\* the result lists at least one plate.
liveAuditCard(verdict) ==
  LET record == liveComplianceRecord(verdict)
  IN IF Truthy(liveResult) /\ Truthy(liveResult.ocr) /\ liveResult.ocr.results # <<>>
       THEN [auditClass |-> liveAuditClass(verdict),
             wantedNotice |-> record # NullR /\ record.wanted,
             status |-> verdict.status,
             record |-> record,
             mismatches |-> liveMismatchList(verdict)]
       ELSE NullR

\* One render of Home with the current live result.
RenderLiveResults ==
  /\ mounted
  /\ LET verdict == liveCompliance
     IN liveAudit' = [rendered |-> TRUE, compliance |-> verdict, card |-> liveAuditCard(verdict)]
  /\ UNCHANGED <<envVars, audit, clientVars, requests>>

\* ------------------------------------------- inputs of the evaluator
\* Values of type ScanResponse (lines 91-97) and registries (lines 99-105)
\* the evaluator is applied to.
Candidates ==
  { [plate |-> <<"a", "b", "1">>, score |-> 9],
    [plate |-> <<" ", "A", "B", "1">>, score |-> 9],
    [plate |-> <<"A", "B", "2">>, score |-> 5],
    [plate |-> <<>>, score |-> 5] }

ResultLists == UNION { [1..n -> Candidates] : n \in 0..MaxResults }

MakeLists ==
  { <<>>,
    << [label |-> <<" ", "b", "O">>] >>,
    << [label |-> <<"E", "d">>] >>,
    << [label |-> <<"E", "t">>], [label |-> <<"E", "n">>], [label |-> <<"E", "d">>],
       [label |-> <<"B", "o">>] >> }

ModelLists ==
  { <<>>,
    << [label |-> <<"c", "D", " ">>] >>,
    << [label |-> <<"C", "e">>], [label |-> <<"C", "a">>], [label |-> <<"C", "d">>] >>,
    << [label |-> <<"C", "e">>], [label |-> <<"C", "a">>], [label |-> <<"C", "o">>],
       [label |-> <<"C", "d">>] >> }

Colors == { UndefR, [name |-> <<"t", "A", "N", " ">>], [name |-> <<"T", "e", "n">>] }

VisionInputs ==
  { [detection |-> [status |-> Str_detected], color |-> c, makes |-> mk, models |-> md] :
      c \in Colors, mk \in MakeLists, md \in ModelLists }

VisionParts ==
  { [vision |-> v, visionStatus |-> "success", visionError |-> NullS] : v \in VisionInputs }
  \cup { [vision |-> NullR, visionStatus |-> "error", visionError |-> "Vision model unreachable."],
         [vision |-> NullR, visionStatus |-> "success", visionError |-> NullS] }
  \cup { [vision |-> v, visionStatus |-> "error", visionError |-> "Vision model unreachable."] :
           v \in { w \in VisionInputs : w.color # UndefR /\ Len(w.makes) = 1 /\ Len(w.models) = 1 } }

ScanInputs ==
  { [ocr |-> [results |-> results], vision |-> v.vision,
     visionStatus |-> v.visionStatus, visionError |-> v.visionError] :
      results \in ResultLists, v \in VisionParts }

RegistryEntries ==
  { [plate |-> <<"a", "b", "1">>, make |-> <<"B", "o">>, model |-> <<"C", "d">>,
     color |-> <<"T", "a", "n">>, wanted |-> [bool |-> TRUE]],
    [plate |-> <<"A", "B", "1">>, make |-> <<"E", "d">>, model |-> <<"C", "d">>,
     color |-> <<"T", "a", "n">>, wanted |-> UndefR],
    [plate |-> <<"A", "B", "1">>, make |-> <<" ">>, model |-> <<>>,
     color |-> <<>>, wanted |-> [num |-> 1]] }

Registries ==
  { registry \in UNION { [1..n -> RegistryEntries] : n \in 0..MaxRegistry } :
      \A i, j \in 1..Len(registry) : registry[i] = registry[j] => i = j }

\* ------------------------------------------------------- specifications
\* Spec: the capture loop against the gateway.
Next == CaptureLoop \/ Gateway \/ Unmount

Spec == Init /\ [][Next]_vars

\* SpecLive: Spec with the scheduling the browser and the network provide.
\* Every await of a capture in progress completes (toBlob calls back, the
\* gateway and its upstream calls answer or fail, the body is parsed), and
\* the armed interval keeps firing on a playing video, so a tick that can
\* take a frame eventually does.
CaptureProgress ==
  \/ Gateway
  \/ \E c \in captures : \E blobOk \in BOOLEAN : ToBlobDone(c, blobOk)
  \/ \E c \in captures : \E r \in requests : FetchResolve(c, r)
  \/ \E c \in captures : FetchReject(c)
  \/ \E c \in captures : JsonDone(c)

TickInitiates == TimerTick /\ captures' # captures

\* The gateway calls of SpecLive succeed or fail: the OCR service answers
\* with a plate or its fetch rejects, the vision service answers.
InitLive ==
  /\ upstream = [ocr |-> {oo \in LoopOcrOutcomes : oo.kind # "http"},
                 vision |-> {vo \in LoopVisionOutcomes : vo.kind = "ok"}]
  /\ InitClient

SpecLive ==
  InitLive /\ [][Next]_vars /\ WF_vars(CaptureProgress) /\ WF_vars(TickInitiates)

\* SpecSnap: the snapshot form against the gateway, with every upstream outcome.
InitSnap ==
  /\ upstream = [ocr |-> OcrOutcomes, vision |-> VisionOutcomes]
  /\ InitClient

NextSnap == Snapshot \/ Gateway \/ Unmount

SpecSnap == InitSnap /\ [][NextSnap]_vars

\* SpecGateway: the snapshot form against each of the gateways, with and
\* without the OCR key in the environment.
InitGateway ==
  /\ upstream = [ocr |-> OcrOutcomes, vision |-> VisionOutcomes]
  /\ variant \in GatewayVariants
  /\ ocrKey \in BOOLEAN
  /\ hasMediaDevices = TRUE
  /\ carDatabase = <<>>
  /\ InitHome

SpecGateway == InitGateway /\ [][NextSnap]_vars

\* SpecPanels: both panels against the gateway, operated one at a time: the
\* camera is used while the snapshot form is empty, the snapshot form while
\* the capture loop has nothing scheduled or in flight (idle or paused).
SnapshotAtRest == selectedFile = 0 /\ submits = {} /\ ~isLoading

LoopAtRest ==
  /\ starts = [getUserMedia |-> 0, play |-> 0]
  /\ captures = {} /\ timeouts = 0 /\ intervals = {}

NextPanels ==
  \/ SnapshotAtRest /\ CaptureLoop
  \/ LoopAtRest /\ Snapshot
  \/ Gateway
  \/ Unmount

SpecPanels == Init /\ [][NextPanels]_vars

\* SpecCompliance: the evaluator applied to every input of ScanInputs and
\* Registries.  The snapshot form holds the result of a submitted photo and
\* the paused capture loop the same result as its last live result.
InitCompliance ==
  /\ upstream = [ocr |-> LoopOcrOutcomes, vision |-> LoopVisionOutcomes]
  /\ variant = "gated" /\ ocrKey = TRUE /\ hasMediaDevices = TRUE
  /\ carDatabase \in Registries
  /\ mounted = TRUE
  /\ isLiveReady = TRUE /\ isLivePaused = TRUE
  /\ liveReadyRef = TRUE /\ livePausedRef = TRUE /\ isSendingRef = FALSE
  /\ loopRef = 0 /\ intervals = {} /\ timeouts = 0
  /\ streamRef = 1 /\ liveTracks = {1}
  /\ starts = [getUserMedia |-> 0, play |-> 0] /\ captures = {}
  /\ scanResult \in ScanInputs
  /\ liveResult = scanResult /\ liveError = NullS /\ liveStatus = StatusPaused
  /\ selectedFile = 1 /\ error = NullS /\ isLoading = FALSE
  /\ submits = {}
  /\ requests = {}
  /\ audit = NotRendered /\ liveAudit = NotRendered

NextCompliance == RenderResults \/ RenderLiveResults

SpecCompliance == InitCompliance /\ [][NextCompliance]_vars

\* SpecEndpoint: the endpoint on its own, called by any HTTP client: each of
\* the four gateways, with and without the OCR key in the environment,
\* receives multipart bodies with and without a "file" field holding a blob.
\* route.ts lines 6 and 13-15 (80 and 82-84), part_003 lines 17-21,
\* part_002 lines 5 and 12-14: a request arrives and its form data is read.
POST(hasFile) ==
  /\ Cardinality(requests) < MaxPosts
  /\ requests' = requests \cup
       {NewRequest(FreshId({r.id : r \in requests}), "http", hasFile)}
  /\ UNCHANGED <<envVars, viewVars, clientVars>>

NextEndpoint == (\E hasFile \in BOOLEAN : POST(hasFile)) \/ Gateway

SpecEndpoint == InitGateway /\ [][NextEndpoint]_vars

\* ================================================================ claims
\* ------------------------------------------------------------------- C1
InFlight == {c \in captures : c.pc \in {"fetch", "json"}}

LiveRequests == {r \in requests : r.client = "live"}

\* C1: single-flight.  In every reachable state of the capture loop at most
\* one gateway call issued by captureFrame is in flight (at most one capture
\* is between its fetch and the end of its body, and the gateway holds at
\* most one request of the loop), whatever the interleaving of timer ticks,
\* immediate captures, start, pause, resume and stop.
C1_SingleFlight ==
  /\ Cardinality(InFlight) <= 1
  /\ Cardinality(LiveRequests) <= 1

\* A call is in flight while the loop is streaming with its timer armed and
\* an immediate capture scheduled: further ticks meet the guard.
C1_Witness ==
  /\ Cardinality(InFlight) = 1
  /\ liveReadyRef /\ ~livePausedRef
  /\ intervals # {}
  /\ timeouts > 0

\* ------------------------------------------------------------------- C2
\* C2: after stop, from whatever state it is called, no periodic timer
\* remains armed and no camera track remains live.
C2_StopReleasesAll ==
  [][stopLiveCamera => (intervals' = {} /\ liveTracks' = {})]_vars

\* ------------------------------------------------------------------- C3
NoCaptureInitiated == \A c \in captures' : c.pc = "toBlob" => c \in captures

\* C3: after pause from streaming, and until start/resume is invoked (or the
\* controller is stopped or disposed of), the controller stays paused, the
\* stream it holds stays the same and live, no track is stopped, and no
\* capture is initiated, not even one scheduled before the pause.
C3_PauseHolds ==
  [][(isLivePaused /\ ~startLiveCamera /\ ~stopLiveCamera /\ ~Unmount)
       => /\ isLivePaused' /\ livePausedRef'
          /\ streamRef' = streamRef
          /\ liveTracks \subseteq liveTracks'
          /\ streamRef' \in liveTracks'
          /\ NoCaptureInitiated]_vars

\* ------------------------------------------------------------------- C4
\* C4: a response to a capture that was in flight when stop was invoked is
\* discarded: when it arrives while the controller is not in live mode, the
\* last live result and the live error stay as stop left them.
C4_LateResponseDiscarded ==
  [][(~isLiveReady /\ \E c \in captures : JsonDone(c))
       => UNCHANGED <<liveResult, liveError>>]_vars

\* ------------------------------------------------------------------- C5
Nonempty(message) == message \notin {NullS, UndefS, ""}

\* C5: in the concurrent gateway, when the OCR request succeeded and the
\* vision request failed (non-2xx or transport), the call answers 2xx with
\* the OCR results, visionStatus = error and a reason string.
C5_VisionFailureDegrades ==
  \A r \in requests :
    (/\ variant = "concurrent" /\ r.pc = "responded"
     /\ r.ocr.kind = "ok" /\ r.vision.kind \in {"http", "transport"})
    => /\ ResponseOk(r.response.status)
       /\ r.response.data.ocr = r.ocr.body
       /\ r.response.data.visionStatus = "error"
       /\ Nonempty(r.response.data.visionError)

\* ------------------------------------------------------------------- C6
DetectedSpellings ==
  { <<"d", "e", "t", "e", "c", "t", "e", "d">>,
    <<"D", "e", "t", "e", "c", "t", "e", "d">>,
    <<"D", "E", "T", "E", "C", "T", "E", "D">> }

PositiveDetection(vo) ==
  /\ vo.kind = "ok"
  /\ vo.body.detection # UndefR
  /\ vo.body.detection.status \in DetectedSpellings

OcrFailed(r) == r.ocr.kind \in {"http", "transport"}

C7_Gateway ==
  \A r \in requests :
    (r.pc = "responded" /\ OcrFailed(r))
      => /\ ~ResponseOk(r.response.status)
         /\ Nonempty(r.response.data.error)
         /\ r.response.data.ocr = UndefR
         /\ r.response.data.vision = UndefR

C7_Client ==
  \A c \in captures :
    (mounted /\ c.pc = "json" /\ ~ResponseOk(c.response.status) /\ JsonDone(c))
      => /\ liveError' = c.response.data.error
         /\ liveResult' = liveResult

\* C7: an OCR failure (non-2xx or transport) is terminal for the capture: the
\* gateway answers non-2xx with an error string and neither ocr nor vision
\* payload, and captureFrame stores that error and no result.
C7_OcrFailureTerminal == []C7_Gateway /\ [][C7_Client]_vars

\* The loop shows the error of a failed OCR call.
C7_Witness ==
  /\ mounted
  /\ liveError = "Plate OCR request failed."
  /\ captures = {}

\* ------------------------------------------------------------------- C8
VisionIffSuccess(result) == Truthy(result.vision) <=> (result.visionStatus = "success")

TopPlate(result) ==
  IF result.ocr.results = <<>> THEN <<>> ELSE result.ocr.results[1].plate

PlateDecoded(result) == TopPlate(result) # <<>>

KeysMatching(result) ==
  { i \in 1..Len(carDatabase) :
      toUpperCase(carDatabase[i].plate) = toUpperCase(TopPlate(result)) }

VisionMissingVerdict(view, result) ==
  /\ view.compliance.status = "vision-missing"
  /\ ("record" \in DOMAIN view.compliance) <=> (KeysMatching(result) # {})
  /\ "record" \in DOMAIN view.compliance
       => view.compliance.record.plate = toUpperCase(TopPlate(result))
  /\ "mismatches" \notin DOMAIN view.compliance
  /\ view.card # NullR
  /\ view.card.status = "vision-missing"
  /\ (view.card.record # NullR) <=> (KeysMatching(result) # {})
  /\ view.card.mismatches = <<>>

\* C10: for a result with a decoded plate whose visionStatus is not success,
\* the rendered verdict (snapshot and live) is vision-missing whether or not
\* the registry holds the looked-up plate, the record is attached exactly
\* when the registry holds it, and there is no mismatch reason.
C10_VisionMissing ==
  /\ (audit.rendered /\ PlateDecoded(scanResult) /\ scanResult.visionStatus # "success")
       => VisionMissingVerdict(audit, scanResult)
  /\ (liveAudit.rendered /\ PlateDecoded(liveResult) /\ liveResult.visionStatus # "success")
       => VisionMissingVerdict(liveAudit, liveResult)

\* Both cards are rendered for a decoded plate the registry holds, vision
\* having failed although a vision payload is present.
C10_Witness ==
  /\ audit.rendered /\ liveAudit.rendered
  /\ PlateDecoded(scanResult) /\ scanResult.visionStatus = "error"
  /\ scanResult.vision # NullR
  /\ KeysMatching(scanResult) # {}
  /\ audit.card.record # NullR

\* ------------------------------------------------------------------ C11
\* The candidate with the highest score, the first of the list among equals.
TopRanked(results) ==
  results[CHOOSE i \in 1..Len(results) :
            /\ \A j \in 1..Len(results) : results[j].score <= results[i].score
            /\ \A j \in 1..(i - 1) : results[j].score < results[i].score]

\* C11: the candidate the rendered verdict is computed from (snapshot and
\* live) is the one with the highest score, the first among equal scores,
\* whatever the order of the upstream list.
C11_TopRanked ==
  /\ (audit.rendered /\ scanResult.ocr.results # <<>>)
       => topResult = TopRanked(scanResult.ocr.results)
  /\ (liveAudit.rendered /\ liveResult.ocr.results # <<>>)
       => topLivePlate = TopRanked(liveResult.ocr.results)

\* ------------------------------------------------------------------ C12
\* The plate as the lookup is specified to canonicalize it.
Canonical(plate) == toUpperCase(trim(plate))

KeysCanonical(result) ==
  { i \in 1..Len(carDatabase) :
      toUpperCase(carDatabase[i].plate) = Canonical(TopPlate(result)) }

FindsRecord(view, result) ==
  /\ "record" \in DOMAIN view.compliance
  /\ view.compliance.record.plate = Canonical(TopPlate(result))

\* C12: a decoded plate that equals a registry key after trimming
\* surrounding whitespace and upper-casing both finds that record: the
\* rendered verdict (snapshot and live) carries the record of that key.
C12_CanonicalLookup ==
  /\ (audit.rendered /\ PlateDecoded(scanResult) /\ KeysCanonical(scanResult) # {})
       => FindsRecord(audit, scanResult)
  /\ (liveAudit.rendered /\ PlateDecoded(liveResult) /\ KeysCanonical(liveResult) # {})
       => FindsRecord(liveAudit, liveResult)

\* ------------------------------------------------------------------ C13
\* A value as the comparison is specified: case-insensitive, trimmed.
Normal(text) == toLowerCase(trim(text))

FirstThree(predictions) ==
  { Normal(predictions[i].label) :
      i \in 1..(IF Len(predictions) < 3 THEN Len(predictions) ELSE 3) }

VisionOk(result) == result.visionStatus = "success" /\ result.vision # NullR

\* The fields are compared: plate decoded, vision available, record found.
Compared(view, result) ==
  /\ view.rendered
  /\ PlateDecoded(result) /\ VisionOk(result) /\ KeysMatching(result) # {}

FieldReasons(view, field) ==
  IF view.compliance.status = "mismatch"
    THEN { i \in 1..Len(view.compliance.mismatches) :
             view.compliance.mismatches[i].field = field }
    ELSE {}

Predictions(result, field) ==
  IF field = "make" THEN result.vision.makes ELSE result.vision.models

\* The make / model rule for one field of the record found.
TopThreeRule(view, result, field) ==
  LET value == view.compliance.record[field]
      predictions == Predictions(result, field)
      reasons == FieldReasons(view, field)
  IN /\ (reasons = {}) <=> (Normal(value) \in FirstThree(predictions))
     /\ \A i \in reasons :
          IF predictions = <<>>
            THEN /\ "found" \in DOMAIN view.compliance.mismatches[i]
                 /\ "predictions" \notin DOMAIN view.compliance.mismatches[i]
            ELSE /\ "predictions" \in DOMAIN view.compliance.mismatches[i]
                 /\ "found" \notin DOMAIN view.compliance.mismatches[i]

BlankValue(view, field) == Normal(view.compliance.record[field]) = <<>>

\* C13 as stated: whenever the fields are compared, the make and the model
\* agree exactly when the registry value is among the first three
\* predictions, and only an empty list gives the no-predictions reason.
C13_TopThreeAnyValue ==
  \A field \in {"make", "model"} :
    /\ Compared(audit, scanResult) => TopThreeRule(audit, scanResult, field)
    /\ Compared(liveAudit, liveResult) => TopThreeRule(liveAudit, liveResult, field)

\* C13, amended: the rule holds for every record whose make (model) is not
\* blank; a blank registry value is not compared and gives no reason.
C13_TopThree ==
  \A field \in {"make", "model"} :
    /\ Compared(audit, scanResult) =>
         IF BlankValue(audit, field) THEN FieldReasons(audit, field) = {}
         ELSE TopThreeRule(audit, scanResult, field)
    /\ Compared(liveAudit, liveResult) =>
         IF BlankValue(liveAudit, field) THEN FieldReasons(liveAudit, field) = {}
         ELSE TopThreeRule(liveAudit, liveResult, field)

\* The registry make is predicted at rank four only and is reported as a
\* wrong value.
C13_Witness ==
  /\ Compared(audit, scanResult)
  /\ Len(scanResult.vision.makes) = 4
  /\ Normal(audit.compliance.record.make) = Normal(scanResult.vision.makes[4].label)
  /\ Normal(audit.compliance.record.make) \notin FirstThree(scanResult.vision.makes)
  /\ FieldReasons(audit, "make") # {}

\* ------------------------------------------------------------------ C14
\* The color rule for the record found: a reason exactly when vision names
\* a color that differs from the registry color, none without a color.
ColorRule(view, result) ==
  LET reasons == FieldReasons(view, "color")
  IN IF result.vision.color = UndefR THEN reasons = {}
     ELSE /\ (reasons # {}) <=>
               (Normal(view.compliance.record.color) # Normal(result.vision.color.name))
          /\ \A i \in reasons :
               /\ view.compliance.mismatches[i].expected = view.compliance.record.color
               /\ view.compliance.mismatches[i].detected = result.vision.color.name

\* C14 as stated: whenever the fields are compared, a differing color gives
\* a reason and a missing color is skipped.
C14_ColorAnyValue ==
  /\ Compared(audit, scanResult) => ColorRule(audit, scanResult)
  /\ Compared(liveAudit, liveResult) => ColorRule(liveAudit, liveResult)

\* C14, amended: the rule holds for every record whose color is not blank; a
\* blank registry color is not compared and gives no reason.
C14_Color ==
  /\ Compared(audit, scanResult) =>
       IF BlankValue(audit, "color") THEN FieldReasons(audit, "color") = {}
       ELSE ColorRule(audit, scanResult)
  /\ Compared(liveAudit, liveResult) =>
       IF BlankValue(liveAudit, "color") THEN FieldReasons(liveAudit, "color") = {}
       ELSE ColorRule(liveAudit, liveResult)

\* Vision names a color other than the registry's and the only reason of the
\* mismatch is the color.
C14_Witness ==
  /\ Compared(audit, scanResult) /\ Compared(liveAudit, liveResult)
  /\ scanResult.vision.color # UndefR
  /\ ~BlankValue(audit, "color")
  /\ FieldReasons(audit, "color") # {}
  /\ FieldReasons(audit, "make") = {} /\ FieldReasons(audit, "model") = {}

\* ------------------------------------------------------------------ C15
FieldRank(field) == CASE field = "make" -> 1 [] field = "model" -> 2 [] field = "color" -> 3

\* The field of the record found disagrees with what vision reported.
Disagrees(view, result, field) ==
  /\ ~BlankValue(view, field)
  /\ IF field = "color"
       THEN /\ result.vision.color # UndefR
            /\ Normal(view.compliance.record.color) # Normal(result.vision.color.name)
       ELSE Normal(view.compliance.record[field]) \notin FirstThree(Predictions(result, field))

MatchOrMismatch(view, result) ==
  LET verdict == view.compliance
      disagreeing == { field \in {"make", "model", "color"} : Disagrees(view, result, field) }
  IN /\ verdict.status \in {"match", "mismatch"}
     /\ (verdict.status = "mismatch") <=> (disagreeing # {})
     /\ verdict.status = "match" => "mismatches" \notin DOMAIN verdict
     /\ verdict.status = "mismatch" =>
          /\ Len(verdict.mismatches) >= 1
          /\ { verdict.mismatches[i].field : i \in 1..Len(verdict.mismatches) } = disagreeing
          /\ \A i, j \in 1..Len(verdict.mismatches) :
               i < j => FieldRank(verdict.mismatches[i].field)
                          < FieldRank(verdict.mismatches[j].field)
     /\ view.card.status = verdict.status
     /\ view.card.mismatches = (IF verdict.status = "mismatch" THEN verdict.mismatches ELSE <<>>)

\* C15: whenever the fields are compared the verdict is mismatch exactly
\* when a field disagrees and match otherwise; the reasons of a mismatch are
\* one per disagreeing field, in the order make, model, color.
C15_MatchOrMismatch ==
  /\ Compared(audit, scanResult) => MatchOrMismatch(audit, scanResult)
  /\ Compared(liveAudit, liveResult) => MatchOrMismatch(liveAudit, liveResult)

\* A mismatch on all three fields is rendered in both panels.
C15_Witness ==
  /\ Compared(audit, scanResult) /\ Compared(liveAudit, liveResult)
  /\ audit.compliance.status = "mismatch"
  /\ Len(audit.compliance.mismatches) = 3
  /\ liveAudit.compliance = audit.compliance

\* ------------------------------------------------------------------ C16
\* The registry entry the lookup finds for the plate: the first with the key.
FoundEntry(result) ==
  carDatabase[CHOOSE i \in KeysMatching(result) : \A j \in KeysMatching(result) : i <= j]

WantedSet(entry) == entry.wanted \in { [bool |-> TRUE], [num |-> 1] }

\* The verdict as it follows from the plate, the vision payload and the make,
\* model and color of the entry found; the wanted flag is not read.
ExpectedStatus(view, result) ==
  IF ~PlateDecoded(result) THEN "no-plate"
  ELSE IF ~VisionOk(result) THEN "vision-missing"
  ELSE IF KeysMatching(result) = {} THEN "unknown"
  ELSE IF \E field \in {"make", "model", "color"} : Disagrees(view, result, field)
    THEN "mismatch"
  ELSE "match"

WantedSurfaced(view, result) ==
  /\ view.compliance.status = ExpectedStatus(view, result)
  /\ "record" \in DOMAIN view.compliance =>
       /\ view.compliance.record.make = FoundEntry(result).make
       /\ view.compliance.record.model = FoundEntry(result).model
       /\ view.compliance.record.color = FoundEntry(result).color
  /\ (PlateDecoded(result) /\ KeysMatching(result) # {} /\ WantedSet(FoundEntry(result)))
       => /\ view.compliance.status \in {"match", "mismatch", "vision-missing"}
          /\ view.card # NullR
          /\ view.card.wantedNotice
          /\ view.card.auditClass = "auditWanted"
  /\ (view.card # NullR /\ view.card.wantedNotice)
       => /\ KeysMatching(result) # {}
          /\ WantedSet(FoundEntry(result))

\* C16: when the registry entry found for the plate has its wanted flag set,
\* the rendered card (snapshot and live) raises the wanted notice under every
\* verdict that carries a record, and the verdict is the one that follows
\* from the other inputs alone.
C16_WantedSurfaced ==
  /\ audit.rendered => WantedSurfaced(audit, scanResult)
  /\ liveAudit.rendered => WantedSurfaced(liveAudit, liveResult)

\* The notice is raised on a match, the flag being the number 1 in the data.
C16_Witness ==
  /\ audit.rendered /\ liveAudit.rendered
  /\ audit.compliance.status = "match"
  /\ FoundEntry(scanResult).wanted = [num |-> 1]
  /\ audit.card.wantedNotice /\ liveAudit.card.wantedNotice

\* ------------------------------------------------------------------ C17
NoPlateExactly(view, result) ==
  /\ (view.compliance.status = "no-plate") <=> ~PlateDecoded(result)
  /\ view.compliance.status = "no-plate" => DOMAIN view.compliance = {"status"}
  /\ (view.card # NullR) <=> (result.ocr.results # <<>>)
  /\ view.card # NullR => view.card.status = view.compliance.status

\* C17: the rendered verdict (snapshot and live) is no-plate exactly when the
\* result has no OCR candidate or its candidate has an empty plate string,
\* under every vision status and registry.
C17_NoPlate ==
  /\ audit.rendered => NoPlateExactly(audit, scanResult)
  /\ liveAudit.rendered => NoPlateExactly(liveAudit, liveResult)

\* A candidate with an empty plate string gives no-plate although vision is
\* available and the registry is not empty.
C17_Witness ==
  /\ audit.rendered /\ liveAudit.rendered
  /\ scanResult.ocr.results # <<>> /\ ~PlateDecoded(scanResult)
  /\ VisionOk(scanResult) /\ carDatabase # <<>>
  /\ audit.card.status = "no-plate"

\* ------------------------------------------------------------------ C18
UnknownWhenAbsent(view, result) ==
  /\ (PlateDecoded(result) /\ VisionOk(result) /\ KeysCanonical(result) = {})
       => /\ view.compliance.status = "unknown"
          /\ DOMAIN view.compliance = {"status"}
          /\ view.card.record = NullR
          /\ ~view.card.wantedNotice
  /\ view.compliance.status = "unknown"
       => PlateDecoded(result) /\ VisionOk(result) /\ KeysMatching(result) = {}

\* C18: for a decoded plate with vision available, when no registry key
\* equals the canonicalized plate the rendered verdict (snapshot and live) is
\* unknown and carries no record; a verdict is unknown only when no key
\* equals the plate looked up.
C18_Unknown ==
  /\ audit.rendered => UnknownWhenAbsent(audit, scanResult)
  /\ liveAudit.rendered => UnknownWhenAbsent(liveAudit, liveResult)

\* The plate AB2 is one character away from the only key AB1 and is unknown.
C18_Witness ==
  /\ audit.rendered /\ liveAudit.rendered
  /\ VisionOk(scanResult)
  /\ \E i \in 1..Len(carDatabase) :
       NearMiss(toUpperCase(carDatabase[i].plate), Canonical(TopPlate(scanResult)))
  /\ KeysCanonical(scanResult) = {}
  /\ audit.compliance.status = "unknown"

\* ------------------------------------------------------------------ C19
Resume == startLiveCamera /\ hasMediaDevices /\ isLivePaused

Resumed ==
  /\ ~isLivePaused' /\ ~livePausedRef'
  /\ isLiveReady' = isLiveReady /\ liveReadyRef' = liveReadyRef
  /\ loopRef' # 0 /\ intervals' = {loopRef'}
  /\ timeouts' = timeouts + 1
  /\ streamRef' = streamRef /\ liveTracks' = liveTracks
  /\ starts' = starts
  /\ liveStatus' = StatusStreaming

\* C19: startLiveCamera invoked while paused clears the paused flag (state
\* and ref), leaves exactly one periodic timer armed and held in loopRef,
\* schedules one immediate captureFrame, and neither changes the held stream
\* nor issues a getUserMedia request.
C19_ResumeKeepsStream == [][Resume => Resumed]_vars

\* Paused with the stream held and its track live, and the resume step can be
\* taken from here.
C19_Witness ==
  /\ mounted /\ isLivePaused /\ livePausedRef /\ isLiveReady
  /\ streamRef # 0 /\ streamRef \in liveTracks
  /\ loopRef = 0 /\ intervals = {}
  /\ ENABLED (Resume /\ Resumed)

\* ------------------------------------------------------------------ C20
StreamingBegun ==
  /\ isLiveReady' /\ ~isLivePaused'
  /\ liveReadyRef' /\ ~livePausedRef'
  /\ loopRef' # 0 /\ intervals' = {loopRef'}
  /\ timeouts' = timeouts + 1
  /\ liveStatus' = StatusStreaming

\* The try block of a start runs to its end in the mounted component: the
\* preview plays.
StartSucceeds == mounted /\ PlayResolve

\* The start invocation that was granted the camera returns.
StartReturnsAfterGrant == mounted /\ (PlayResolve \/ PlayReject)

StartDenied == (startLiveCamera /\ ~hasMediaDevices) \/ GetUserMediaReject

ControllerIdle ==
  /\ ~isLiveReady /\ ~isLivePaused
  /\ ~liveReadyRef /\ ~livePausedRef
  /\ intervals = {} /\ loopRef = 0

\* C21: a start that ends because the camera is unavailable or access is
\* denied stores an error message for the mounted page, changes neither the
\* ready/paused flags nor the timer nor the stream, and schedules or initiates
\* no capture: a controller that was idle is idle afterwards.
C21_DeniedStaysIdle ==
  [][StartDenied
       => /\ mounted => Nonempty(liveError')
          /\ UNCHANGED <<flagVars, timerVars, streamVars, timeouts, captures, isSendingRef>>
          /\ ControllerIdle => ControllerIdle']_vars

\* The page shows the denial and the controller is idle with nothing pending.
C21_Witness ==
  /\ mounted /\ hasMediaDevices
  /\ liveError = "Permission denied"
  /\ ControllerIdle
  /\ starts.getUserMedia = 0 /\ starts.play = 0
  /\ timeouts = 0 /\ captures = {}

\* ------------------------------------------------------------------ C22
PauseKeepsCalls == pauseLiveCamera => UNCHANGED <<captures, requests, isSendingRef>>

AppliedWhilePaused ==
  \A c \in captures :
    (mounted /\ isLivePaused /\ JsonDone(c) /\ ~ResponseRejected(c.response))
      => /\ liveResult' = ToScanResponse(c.response.data)
         /\ liveError' = NullS

\* C22: pauseLiveCamera leaves the captures in flight and their gateway
\* requests as they are, and a capture whose answer arrives while the
\* controller is paused has its result stored as the last live result.
C22_PauseKeepsInFlight == [][PauseKeepsCalls /\ AppliedWhilePaused]_vars

\* Paused with no result stored yet and the answer of a capture in hand: the
\* result can be stored from here.
C22_Witness ==
  /\ mounted /\ isLivePaused /\ livePausedRef /\ intervals = {}
  /\ liveResult = NullR
  /\ \E c \in captures :
       /\ c.pc = "json" /\ ~ResponseRejected(c.response)
       /\ ENABLED (JsonDone(c) /\ liveResult' # NullR /\ isLivePaused')

\* ------------------------------------------------------------------ C23
\* The guard is set exactly while a capture is between its first await and
\* its finally block.
GuardHeldByCapture == isSendingRef <=> captures # {}

CallResolved(c) ==
  /\ (JsonDone(c) \/ FetchReject(c))
       => /\ ~isSendingRef' /\ c \notin captures'
          /\ UNCHANGED <<timerVars, streamVars, flagVars>>
  /\ (mounted /\ JsonDone(c) /\ ~ResponseRejected(c.response))
       => /\ liveResult' = ToScanResponse(c.response.data)
          /\ liveError' = NullS
  /\ (mounted /\ JsonDone(c) /\ ResponseRejected(c.response))
       => /\ Nonempty(liveError')
          /\ liveResult' = liveResult
  /\ (mounted /\ FetchReject(c))
       => /\ Nonempty(liveError')
          /\ liveResult' = liveResult

\* C23: the in-flight guard is set exactly while a capture is in progress,
\* and the step that ends a capture's gateway call (answer parsed, or fetch
\* rejected) clears the guard and leaves timer, stream and flags as they are;
\* a successful answer becomes the last live result, a failed one stores its
\* error message and keeps the last live result.
C23_GuardReleased ==
  /\ []GuardHeldByCapture
  /\ [][\A c \in captures : CallResolved(c)]_vars

\* A rejected fetch left its message; the guard is free and the controller
\* still streams with its timer and its camera.
C23_Witness ==
  /\ mounted /\ liveError = "Failed to fetch"
  /\ ~isSendingRef /\ captures = {}
  /\ isLiveReady /\ ~isLivePaused
  /\ loopRef \in intervals /\ streamRef \in liveTracks

\* ------------------------------------------------------------------ C24
\* C24: when toBlob yields no blob the tick is skipped silently: the live
\* error stays as it was, no gateway request is made, timer and stream are
\* left as they are, and the in-flight guard is released.
C24_EncodeFailureSilent ==
  [][\A c \in captures :
       ToBlobDone(c, FALSE)
         => /\ liveError' = liveError
            /\ requests' = requests
            /\ UNCHANGED <<timerVars, streamVars>>
            /\ ~isSendingRef']_vars

\* ------------------------------------------------------------------ C25
\* C25: once the component is disposed of, whatever the controller was doing
\* at that time, no periodic timer is armed and no camera track obtained by
\* the controller is live.
C25_DisposalReleasesAll == ~mounted => (intervals = {} /\ liveTracks = {})

\* ------------------------------------------------------------------ C26
Initiated == {c \in captures' : c.pc = "toBlob" /\ c \notin captures}

\* A capture is initiated only when no earlier capture is still to apply
\* its result, and the capture that applies a result is the only one there is.
AppliedInOrder ==
  /\ Initiated # {} => captures = {}
  /\ \A c \in captures : JsonDone(c) => captures = {c}

\* C26: live results are applied in the order their captures were initiated:
\* a capture is initiated only after every earlier one has applied its result
\* (or failed), so the result of an earlier capture is never applied after
\* that of a later one.
C26_AppliedInOrder == [][AppliedInOrder]_vars

\* A result is stored and the next capture holds an answer that differs from
\* it: the later result is about to replace the earlier one.
C26_Witness ==
  /\ mounted /\ liveResult # NullR
  /\ \E c \in captures :
       /\ c.pc = "json" /\ ~ResponseRejected(c.response)
       /\ ToScanResponse(c.response.data) # liveResult

\* ------------------------------------------------------------------ C27
\* C27: while the environment holds no OCR key, every request the gateway
\* has taken up is answered at once with status 500 and an error string, and
\* no call to the OCR service or the vision service is made for it.
C27_MissingKeyFailsFast ==
  \A r \in requests :
    (~ocrKey /\ r.pc # "recv")
      => /\ r.pc = "responded"
         /\ r.response.status = 500
         /\ Nonempty(r.response.data.error)
         /\ r.ocr = NoCall /\ r.vision = NoCall

\* ------------------------------------------------------------------ C28
ValidUpload(r) == r.hasFile /\ (readsEnvKey => ocrKey)

\* C28: in the concurrent gateway the OCR call and the vision call of a valid
\* upload are issued together, and a response exists only once both calls
\* have completed: none is produced while one of them is still outstanding.
C28_StructuredJoin ==
  \A r \in requests :
    variant \in ConcurrentVariants
      => /\ (r.ocr = NoCall) <=> (r.vision = NoCall)
         /\ (r.pc # "recv" /\ ValidUpload(r)) => (r.ocr # NoCall /\ r.vision # NoCall)
         /\ r.pc = "responded" => (r.ocr # Pending /\ r.vision # Pending)

\* ------------------------------------------------------------------ C29
InProgress == captures # {}

Streams ==
  /\ mounted /\ liveReadyRef /\ ~livePausedRef
  /\ loopRef # 0 /\ loopRef \in intervals

\* C29: every capture in progress eventually ends and frees the guard, and
\* whenever the controller streams with no capture in progress, a capture is
\* eventually initiated unless streaming ends first: the loop is throttled
\* by the gateway, never locked out.
C29_NeverLockedOut ==
  /\ (InProgress \/ isSendingRef) ~> (~InProgress /\ ~isSendingRef)
  /\ (Streams /\ ~InProgress) ~> (InProgress \/ ~Streams)

\* A result of this session is stored and the next capture is in progress.
C29_Witness ==
  /\ Streams /\ isLiveReady /\ ~isLivePaused
  /\ liveResult # NullR /\ liveError = NullS
  /\ InProgress /\ isSendingRef

\* ------------------------------------------------------------------ C30
EndsStreaming == pauseLiveCamera \/ stopLiveCamera \/ Unmount

\* C30: in every reachable state a periodic timer is armed only while the
\* controller is ready and not paused, and every pause, stop and disposal
\* leaves no timer armed.
C30_TimerOnlyWhileStreaming ==
  /\ [](intervals # {} => (isLiveReady /\ ~isLivePaused))
  /\ [][EndsStreaming => intervals' = {}]_vars
\* ------------------------------------------------------------------ C31
StartWhileStreaming == startLiveCamera /\ isLiveReady /\ ~isLivePaused

PauseWhileNotStreaming == pauseLiveCamera /\ (~isLiveReady \/ isLivePaused)

\* C31: startLiveCamera invoked while streaming and pauseLiveCamera invoked
\* while idle or paused return at once: no step of either changes any part of
\* the state (no camera request, no timer armed or cleared, no flag, result,
\* error or status written).
C31_InvalidTransitionsNoOp ==
  [][(StartWhileStreaming \/ PauseWhileNotStreaming) => UNCHANGED vars]_vars

\* Streaming with a stored result: start has nothing it can do here, pause has.
C31_Witness ==
  /\ Streams /\ isLiveReady /\ ~isLivePaused
  /\ liveResult # NullR
  /\ ~ENABLED startLiveCamera
  /\ ENABLED pauseLiveCamera

\* ------------------------------------------------------------------ C32
SameInputs ==
  /\ primaryPlate = livePlate
  /\ visionAvailable = liveVisionAvailable
  /\ topMakeLabels = liveTopMakeLabels
  /\ topModelLabels = liveTopModelLabels
  /\ topColorLabel = liveColorLabel

\* C32: when the snapshot result and the live result give the same top
\* plate, vision availability, top-3 make labels, top-3 model labels and
\* color label, compliance and liveCompliance over the same registry return
\* the same verdict, the same record and the same list of reasons.
C32_SameFunction ==
  (audit.rendered /\ liveAudit.rendered /\ SameInputs)
    => /\ audit.compliance = liveAudit.compliance
       /\ complianceRecord(audit.compliance) = liveComplianceRecord(liveAudit.compliance)
       /\ mismatchList(audit.compliance) = liveMismatchList(liveAudit.compliance)

\* Both evaluators found the record without vision and attached it.
C32_Witness ==
  /\ audit.rendered /\ liveAudit.rendered /\ SameInputs
  /\ audit.compliance.status = "vision-missing"
  /\ complianceRecord(audit.compliance) # NullR
  /\ liveComplianceRecord(liveAudit.compliance) # NullR


NoStartInProgress == starts = [getUserMedia |-> 0, play |-> 0]

\* C34: whenever the controller is idle (not ready and no start in progress)
\* no camera track obtained by the controller is live, and whenever no start
\* is in progress the only track that may be live is the one held in
\* streamRef by a ready controller: every other stream returned by
\* getUserMedia has been stopped.
C34_NoLiveTrackWhileIdle ==
  /\ (~isLiveReady /\ NoStartInProgress) => liveTracks = {}
  /\ (isLiveReady /\ NoStartInProgress) => liveTracks \subseteq {streamRef}


\* ------------------------------------------------------------------ C35
\* The controller as stopLiveCamera leaves it (lines 429-451), for as long as
\* start has not been invoked again: every start invocation changes the
\* status to "Requesting camera access" (line 377) or sets an error.
IdleSinceStop ==
  /\ mounted
  /\ ~isLiveReady /\ ~liveReadyRef
  /\ intervals = {} /\ streamRef = 0
  /\ liveStatus = StatusIdle /\ liveError = NullS /\ liveResult = NullR

\* C35: after stop the controller stays idle (not ready, no timer armed, no
\* stream held) until start is invoked again, and after disposal it stays
\* idle for good: a camera acquisition that was pending when stop or disposal
\* happened does not start streaming when it completes.
C35_StaysIdleAfterStop ==
  /\ [][(IdleSinceStop /\ ~startLiveCamera /\ mounted')
          => (~isLiveReady' /\ ~liveReadyRef' /\ intervals' = {} /\ streamRef' = 0)]_vars
  /\ [][~mounted => (intervals' = {} /\ streamRef' = 0)]_vars


\* ------------------------------------------------------------------ C36
\* A streaming session begins when the continuation of startLiveCamera sets
\* liveReadyRef (line 396) on a controller that was not ready.
SessionStart == mounted /\ ~liveReadyRef /\ liveReadyRef'

\* C36: a live result stored during a streaming session comes from a capture
\* initiated in that session. Captures are initiated only while ready (line
\* 284) and their responses are stored without regard to the session (lines
\* 339-346), so a session must begin with no capture of an earlier session in
\* flight, and with the in-flight guard clear.
C36_SessionOwnsResults ==
  [][SessionStart => (captures' = {} /\ ~isSendingRef')]_vars


\* ------------------------------------------------------------------ C37
\* C37: a displayed snapshot result was produced from the currently selected
\* file. A result is stored only by the submission of the file that is
\* selected at that moment, and every change of the selection clears the
\* result: the response for an earlier file never becomes the displayed
\* result of a new selection.
C37_ResultOfSelectedFile ==
  [][/\ \A s \in submits :
          (SubmitJsonDone(s) /\ scanResult' # NullR) => s.file = selectedFile
     /\ selectedFile' # selectedFile => scanResult' = NullR]_vars


\* ------------------------------------------------------------------ C38
\* A live capture fails when the frame cannot be encoded, when the fetch
\* rejects or when the response is rejected (lines 313-337, 347-349).
LiveCaptureFailed(c) ==
  \/ ToBlobDone(c, FALSE)
  \/ FetchReject(c)
  \/ JsonDone(c) /\ ResponseRejected(c.response)

LiveCaptureSucceeded(c) == JsonDone(c) /\ ~ResponseRejected(c.response)

\* A snapshot submission fails when the fetch rejects or when the response
\* is rejected (lines 239-270).
SubmissionFailed(s) ==
  \/ SubmitFetchReject(s)
  \/ SubmitJsonDone(s) /\ ResponseRejected(s.response)

\* C38: in the mounted page, a failed live capture leaves the last live
\* result unchanged and stores an error next to it; a successful live capture
\* replaces the result with the one of its response and clears the live
\* error; a failed snapshot submission stores an error and clears the
\* snapshot result.
C38_FailureKeepsLiveClearsSnapshot ==
  [][/\ \A c \in captures :
          /\ (mounted /\ LiveCaptureFailed(c))
               => (liveResult' = liveResult /\ liveError' # NullS)
          /\ (mounted /\ LiveCaptureSucceeded(c))
               => (liveResult' = ToScanResponse(c.response.data) /\ liveError' = NullS)
     /\ \A s \in submits :
          (mounted /\ SubmissionFailed(s)) => (scanResult' = NullR /\ error' # NullS)]_vars

\* After a failed capture and a failed submission: the live panel still holds
\* its last result next to the error, the snapshot panel holds only the error
\* for the selected photo.
C38_Witness ==
  /\ mounted
  /\ liveResult # NullR /\ liveError # NullS
  /\ selectedFile # 0 /\ ~isLoading /\ scanResult = NullR /\ error # NullS


\* ------------------------------------------------------------------ C39
\* A request whose body has no "file" field holding a blob, once the
\* endpoint has handled it.
HandledWithoutFile(r) == ~r.hasFile /\ r.pc # "recv"

RejectedWithoutCall(r, status) ==
  /\ r.pc = "responded"
  /\ r.response.status = status
  /\ Nonempty(r.response.data.error)
  /\ r.ocr = NoCall /\ r.vision = NoCall

\* C39 as stated: in every gateway variant a request without a file blob is
\* rejected with status 400 and an error string, and no upstream service is
\* called.
C39_MissingFileRejected ==
  \A r \in requests : HandledWithoutFile(r) => RejectedWithoutCall(r, 400)

\* C39 amended: in every gateway variant a request without a file blob is
\* rejected with an error string and no upstream service is called; the
\* status is 400, except that the variants reading the OCR key from the
\* environment answer 500 when the key is missing, before the body is read.
C39_MissingFileRejectedIfConfigured ==
  \A r \in requests :
    HandledWithoutFile(r)
      => RejectedWithoutCall(r, IF readsEnvKey /\ ~ocrKey THEN 500 ELSE 400)

\* A configured gateway has rejected a request without a file with 400 while
\* it is calling upstream for a request that carries one.
C39_Witness ==
  /\ readsEnvKey => ocrKey
  /\ \E r \in requests : HandledWithoutFile(r) /\ RejectedWithoutCall(r, 400)
  /\ \E r \in requests : r.hasFile /\ (r.ocr = Pending \/ r.vision = Pending)

====
